---- MODULE Spec2Model ----
(***************************************************************************)
(* Settings store, model selector and streamText of bolt.diy.              *)
(*                                                                         *)
(*   lib/stores/settings   (src/unnamed/part_000)                          *)
(*   components/chat/ModelSelector.tsx                                     *)
(*   lib/.server/llm/stream-text.ts                                        *)
(*                                                                         *)
(* SpecStore   : the browser side - module initialisation from             *)
(*               localStorage, then clicks in the selector and the host    *)
(*               delivering fetched model lists.                           *)
(* SpecStream  : the server side - one call of streamText per behaviour,   *)
(*               its props drawn from bounded sets.                        *)
(* SpecStartup : the module evaluated over a stored localStorage content.  *)
(* SpecProviders : updateProviderSettings next to the selector.            *)
(* SpecPreprocess : the messages.map callback applied to an assistant      *)
(*               message, then to its own output.                          *)
(***************************************************************************)
EXTENDS Integers, Sequences, FiniteSets, TLC

VARIABLES
    settingsStore,    \* map<SettingsState>                    part_000:143
    providersStore,   \* map<ProviderSetting>                  part_000:89
    localStorage,     \* the browser's durable key/value store
    effects,          \* what the last selector handler did, in order
    uiError,          \* a TypeError escaped a selector handler
    props,            \* the argument of the streamText call
    pc,               \* "boot" | "store" | "called" | "done" | "failed"
                      \* | "raw" | "once" | "twice"
    systemPrompt,     \* streamText's local systemPrompt, as segments
    processedMessages,\* streamText's local processedMessages
    resolved,         \* provider / modelDetails / dynamicMaxTokens
    fetchCount,       \* calls of getModelListFromProvider
    thrown,           \* the Error streamText threw
    sdkCalls,         \* the arguments of each _streamText call
    config,           \* DEFAULT_PROVIDER and DEFAULT_MODEL of ~/utils/constants
    atoms,            \* the atom stores and tabConfigurationStore  part_000:162-233
    reprocessed       \* the messages.map callback applied to processedMessages

vars == << settingsStore, providersStore, localStorage, effects, uiError,
           props, pc, systemPrompt, processedMessages, resolved, fetchCount,
           thrown, sdkCalls, config, atoms, reprocessed >>

storeVars == << settingsStore, providersStore, localStorage, effects, uiError >>

streamVars == << props, pc, systemPrompt, processedMessages, resolved,
                 fetchCount, thrown, sdkCalls, config, atoms, reprocessed >>

----------------------------------------------------------------------------
(* JavaScript values *)

\* undefined / a missing property, for string-valued slots
Undefined == "<undefined>"

\* localStorage.getItem of a key that was never set
Null == "<null>"

\* truthiness of a string-valued slot
Truthy(s) == s \notin {Undefined, Null, ""}

\* a || b on string-valued slots
OrElse(a, b) == IF Truthy(a) THEN a ELSE b

RECURSIVE SeqToSet(_)
SeqToSet(s) == IF s = << >> THEN {} ELSE {Head(s)} \cup SeqToSet(Tail(s))

\* Array.prototype.find on a list of records with a name: the index of the
\* first match, 0 when there is none
RECURSIVE FindIndexFrom(_, _, _)
FindIndexFrom(s, n, i) ==
    IF i > Len(s) THEN 0
    ELSE IF s[i].name = n THEN i
         ELSE FindIndexFrom(s, n, i + 1)

FindByName(s, n) == FindIndexFrom(s, n, 1)

----------------------------------------------------------------------------
(* ~/utils/constants : the static registry *)

ModelInfo(n, max) == [name |-> n, maxTokenAllowed |-> max]

\* maxTokenAllowed 0 stands for a model without the property
Claude == ModelInfo("claude", 0)
Haiku  == ModelInfo("haiku", 4096)
Gpt4   == ModelInfo("gpt4", 8192)
Llama  == ModelInfo("llama", 2048)
Phi    == ModelInfo("phi", 0)

PROVIDER_LIST ==
    << [name |-> "Anthropic", staticModels |-> << Claude, Haiku >>,
        models |-> << Haiku, Claude >>, defaultModel |-> "claude",
        isConfigurable |-> TRUE],
       [name |-> "OpenAI", staticModels |-> << Gpt4 >>,
        models |-> << Gpt4 >>, defaultModel |-> Undefined,
        isConfigurable |-> TRUE],
       [name |-> "Ollama", staticModels |-> << >>,
        models |-> << >>, defaultModel |-> Undefined,
        isConfigurable |-> FALSE] >>

ProviderNames == { PROVIDER_LIST[i].name : i \in 1..Len(PROVIDER_LIST) }

ProviderByName(n) == PROVIDER_LIST[FindByName(PROVIDER_LIST, n)]

\* part_000:32
LOCAL_PROVIDERS == {"OpenAILike", "LMStudio", "Ollama"}

\* part_000:58, in the browser
isBrowser == TRUE

----------------------------------------------------------------------------
(* lib/stores/settings : initialisation *)

\* the settings sub-object of an IProviderConfig
Settings(en, key, conf) == [enabled |-> en, apiKey |-> key, isConfigured |-> conf]

\* { ...provider, settings }
ProviderEntry(p, s) ==
    [name |-> p.name, isConfigurable |-> p.isConfigurable, settings |-> s]

\* getInitialProviderSettings building entries from the saved settings only
getInitialProviderSettingsDropsUnsaved(ls) ==
    LET saved == ls.provider_settings
    IN  IF isBrowser /\ saved.stored /\ saved.wellFormed
        THEN [n \in ProviderNames \cap DOMAIN saved.value |->
                ProviderEntry(ProviderByName(n), saved.value[n].settings)]
        ELSE [n \in {} |-> ProviderEntry(PROVIDER_LIST[1], Settings(TRUE, Undefined, FALSE))]

\* part_000:60-87.  ls is the content of localStorage.
getInitialProviderSettings(ls) ==
    LET initialSettings ==
            [n \in ProviderNames |->
                ProviderEntry(ProviderByName(n),
                              Settings(n \notin LOCAL_PROVIDERS, Undefined, FALSE))]
        saved == ls.provider_settings
    IN  IF isBrowser /\ saved.stored /\ saved.wellFormed
        THEN [n \in ProviderNames |->
                IF n \in DOMAIN saved.value
                THEN [initialSettings[n] EXCEPT !.settings = saved.value[n].settings]
                ELSE initialSettings[n]]
        ELSE initialSettings

\* part_000:120
getStoredString(ls, key, defaultValue) ==
    IF isBrowser THEN OrElse(ls[key], defaultValue) ELSE defaultValue

\* part_000:119
getStoredBoolean(ls, key, defaultValue) ==
    IF isBrowser THEN ls[key] = "true" ELSE defaultValue

\* part_000:118-131
getInitialSettings(ls) ==
    [latestBranch |-> getStoredBoolean(ls, "isLatestBranch", FALSE),
     autoSelectTemplate |-> getStoredBoolean(ls, "autoSelectTemplate", TRUE),
     contextOptimization |-> getStoredBoolean(ls, "contextOptimizationEnabled", TRUE),
     eventLogs |-> getStoredBoolean(ls, "isEventLogsEnabled", TRUE),
     promptId |-> getStoredString(ls, "promptId", "default"),
     developerMode |-> getStoredBoolean(ls, "isDeveloperMode", FALSE),
     selectedProviderName |->
        getStoredString(ls, "selectedProvider",
            IF Len(PROVIDER_LIST) > 0 THEN OrElse(PROVIDER_LIST[1].name, "") ELSE ""),
     selectedModelName |->
        getStoredString(ls, "selectedModel",
            IF Len(PROVIDER_LIST) > 0 THEN OrElse(PROVIDER_LIST[1].defaultModel, "") ELSE "")]

\* part_000:143-149.  selectedProvider holds the name of the registry object,
\* Undefined when find() matched nothing.
initialSettingsStore(ls) ==
    LET initialSettings == getInitialSettings(ls)
    IN  [selectedProvider |->
            IF FindByName(PROVIDER_LIST, initialSettings.selectedProviderName) = 0
            THEN Undefined ELSE initialSettings.selectedProviderName,
         selectedModel |-> initialSettings.selectedModelName,
         models |-> [n \in {} |-> << >>],
         providerSettings |-> getInitialProviderSettings(ls)]

\* a tab of the settings window
Tab(id, window, visible) == [id |-> id, window |-> window, visible |-> visible]

\* ~/components/@settings/core/constants
DEFAULT_TAB_CONFIG ==
    << Tab("features", "user", TRUE), Tab("data", "user", TRUE),
       Tab("debug", "developer", TRUE) >>

\* tabs.filter((tab) => tab.window === window)
tabsOfWindow(tabs, window) == SelectSeq(tabs, LAMBDA tab : tab.window = window)

\* part_000:190-193
defaultConfig ==
    [userTabs |-> tabsOfWindow(DEFAULT_TAB_CONFIG, "user"),
     developerTabs |-> tabsOfWindow(DEFAULT_TAB_CONFIG, "developer")]

\* part_000:189-206.  The stored entry is absent, text JSON.parse rejects
\* ("invalid"), JSON without the two arrays ("noArrays", the filter call
\* throws a TypeError) or a configuration; every exception is caught.
getInitialTabConfiguration(ls) ==
    LET saved == ls.bolt_tab_configuration
    IN  IF ~isBrowser THEN defaultConfig
        ELSE IF saved.kind # "config" THEN defaultConfig
        ELSE [userTabs |-> tabsOfWindow(saved.value.userTabs, "user"),
              developerTabs |-> tabsOfWindow(saved.value.developerTabs, "developer")]

\* part_000:162-166, 208, 233: the stores created from the initial settings
initialAtoms(ls) ==
    LET initialSettings == getInitialSettings(ls)
    IN  [latestBranchStore |-> initialSettings.latestBranch,
         autoSelectStarterTemplate |-> initialSettings.autoSelectTemplate,
         enableContextOptimizationStore |-> initialSettings.contextOptimization,
         isEventLogsEnabled |-> initialSettings.eventLogs,
         promptStore |-> initialSettings.promptId,
         developerModeStore |-> initialSettings.developerMode,
         tabConfigurationStore |-> getInitialTabConfiguration(ls)]

\* part_000:151-160, the listener: localStorage after it saw currentValue
listener(ls, currentValue) ==
    IF ~isBrowser THEN ls
    ELSE LET ls1 == IF Truthy(currentValue.selectedProvider)
                    THEN [ls EXCEPT !.selectedProvider = currentValue.selectedProvider]
                    ELSE ls
         IN  IF Truthy(currentValue.selectedModel)
             THEN [ls1 EXCEPT !.selectedModel = currentValue.selectedModel]
             ELSE ls1

\* nanostores map.setKey: the value is replaced and the listeners run only
\* when the new value differs from the old one
setKeyNotifies(store, key, value) == store[key] # value

setKey(store, key, value) == [store EXCEPT ![key] = value]

\* localStorage after settingsStore.setKey(key, value)
afterSetKey(ls, store, key, value) ==
    IF setKeyNotifies(store, key, value)
    THEN listener(ls, setKey(store, key, value))
    ELSE ls

\* { ...current, ...settings } on the settings sub-object
mergeSettings(current, settings) ==
    [f \in DOMAIN current |->
        IF f \in DOMAIN settings THEN settings[f] ELSE current[f]]

\* JSON.stringify(providersStore.get()) as the provider_settings entry
stringifyProviders(providers) ==
    [stored |-> TRUE, wellFormed |-> TRUE, value |-> providers]

\* part_000:91-102.  The record left in effects holds the call and the
\* content of providersStore before it.
updateProviderSettings(provider, settings) ==
    /\ pc = "store"
    /\ ~uiError
    /\ LET currentSettings == providersStore
           updatedProvider ==
               [currentSettings[provider] EXCEPT
                   !.settings = mergeSettings(currentSettings[provider].settings, settings)]
       IN  /\ providersStore' = setKey(providersStore, provider, updatedProvider)
           /\ localStorage' =
                 [localStorage EXCEPT !.provider_settings = stringifyProviders(providersStore')]
           /\ effects' =
                 [handler |-> "updateProviderSettings", arg |-> provider,
                  trace |-> << [call |-> "providersStore.setKey", key |-> provider,
                                value |-> updatedProvider, notified |-> FALSE,
                                before |-> currentSettings] >>,
                  preProvider |-> settingsStore.selectedProvider,
                  preModel |-> settingsStore.selectedModel,
                  preStorage |-> localStorage]
    /\ UNCHANGED << settingsStore, uiError >>
    /\ UNCHANGED streamVars

----------------------------------------------------------------------------
(* components/chat/ModelSelector.tsx *)

\* one entry of `effects.trace`: a call the handler made, and the store
\* content a listener saw right after it
SetKeyEvent(store, key, value) ==
    [call |-> "setKey", key |-> key, value |-> value,
     notified |-> setKeyNotifies(store, key, value),
     seenProvider |-> setKey(store, key, value).selectedProvider,
     seenModel |-> setKey(store, key, value).selectedModel]

FetchEvent(store, p) ==
    [call |-> "onFetchModels", key |-> "", value |-> p.name, notified |-> FALSE,
     seenProvider |-> store.selectedProvider, seenModel |-> store.selectedModel]

Effects(handler, arg, trace) ==
    [handler |-> handler, arg |-> arg, trace |-> trace,
     preProvider |-> settingsStore.selectedProvider,
     preModel |-> settingsStore.selectedModel,
     preStorage |-> localStorage]

NoEffects == [handler |-> "none", arg |-> "", trace |-> << >>,
              preProvider |-> Undefined, preModel |-> "",
              preStorage |-> [selectedProvider |-> Null, selectedModel |-> Null]]

\* ModelSelector.tsx:56-59.  "TypeError" when providerSettings has no entry
\* for the name: settings is undefined and settings.isConfigurable throws.
isProviderConfigured(providerSettings, providerName) ==
    IF providerName \notin DOMAIN providerSettings
    THEN "TypeError"
    ELSE LET settings == providerSettings[providerName]
         IN  IF \/ Truthy(settings.settings.apiKey)
                \/ settings.settings.isConfigured
                \/ ~settings.isConfigurable
             THEN "truthy" ELSE "falsy"

\* provider.models?.[0]?.name
firstModelName(provider) ==
    IF Len(provider.models) > 0 THEN provider.models[1].name ELSE Undefined

\* modelForProvider preferring the first model to the default model
modelForProviderFirstModel(provider) ==
    OrElse(firstModelName(provider), OrElse(provider.defaultModel, ""))

\* ModelSelector.tsx:37, the model written on a provider change
modelForProvider(provider) ==
    OrElse(provider.defaultModel, OrElse(firstModelName(provider), ""))

\* ModelSelector.tsx:35-41
handleProviderSelect(provider) ==
    LET store1 == setKey(settingsStore, "selectedProvider", provider.name)
        ls1    == afterSetKey(localStorage, settingsStore, "selectedProvider", provider.name)
        model  == modelForProvider(provider)
        store2 == setKey(store1, "selectedModel", model)
        ls2    == afterSetKey(ls1, store1, "selectedModel", model)
    IN  /\ settingsStore' = store2
        /\ localStorage' = ls2
        /\ effects' = Effects("handleProviderSelect", provider.name,
                << SetKeyEvent(settingsStore, "selectedProvider", provider.name),
                   SetKeyEvent(store1, "selectedModel", model),
                   FetchEvent(store2, provider) >>)
        /\ UNCHANGED << providersStore, uiError >>

\* ModelSelector.tsx:125, the onClick of a provider list item
ProviderItemClick(p) ==
    /\ pc = "store"
    /\ ~uiError
    /\ LET configured == isProviderConfigured(settingsStore.providerSettings, p.name)
       IN  IF configured = "TypeError"
           THEN /\ uiError' = TRUE
                /\ effects' = Effects("providerItemClick", p.name, << >>)
                /\ UNCHANGED << settingsStore, providersStore, localStorage >>
           ELSE IF configured = "truthy"
           THEN handleProviderSelect(p)
           ELSE /\ effects' = Effects("providerItemClick", p.name, << >>)
                /\ UNCHANGED << settingsStore, providersStore, localStorage, uiError >>
    /\ UNCHANGED streamVars

\* ModelSelector.tsx:66-74 with an empty search text
currentModels ==
    LET providerName == OrElse(settingsStore.selectedProvider, "")
    IN  IF providerName \in DOMAIN settingsStore.models
        THEN settingsStore.models[providerName] ELSE << >>

\* ModelSelector.tsx:43-47
handleModelSelect(modelName) ==
    /\ settingsStore' = setKey(settingsStore, "selectedModel", modelName)
    /\ localStorage' = afterSetKey(localStorage, settingsStore, "selectedModel", modelName)
    /\ effects' = Effects("handleModelSelect", modelName,
            << SetKeyEvent(settingsStore, "selectedModel", modelName) >>)
    /\ UNCHANGED << providersStore, uiError >>

\* ModelSelector.tsx:165, the onClick of a model list item
ModelItemClick(i) ==
    /\ pc = "store"
    /\ ~uiError
    /\ i \in 1..Len(currentModels)
    /\ handleModelSelect(currentModels[i].name)
    /\ UNCHANGED streamVars

\* what the provider's dynamic fetch returns to the host
DynamicModels(name) ==
    IF name = "Anthropic" THEN { << >>, << Phi >> }
    ELSE IF name = "OpenAI" THEN { << >>, << Phi, Gpt4 >> }
    ELSE { << >>, << Llama, Phi >> }

\* the host completes a fetch it was asked for and publishes the provider's
\* list (static models, then the fetched ones) under settingsStore.models
HostModelsLoaded(p, dynamic) ==
    /\ pc = "store"
    /\ ~uiError
    /\ LET list == p.staticModels \o dynamic
           models == [n \in DOMAIN settingsStore.models \cup {p.name} |->
                        IF n = p.name THEN list ELSE settingsStore.models[n]]
       IN  /\ settingsStore' = setKey(settingsStore, "models", models)
           /\ localStorage' = afterSetKey(localStorage, settingsStore, "models", models)
           /\ effects' = Effects("hostModelsLoaded", p.name, << >>)
    /\ UNCHANGED << providersStore, uiError >>
    /\ UNCHANGED streamVars

----------------------------------------------------------------------------
(* lib/.server/llm/stream-text.ts : data *)

\* ~/utils/constants and ./constants
DEFAULT_PROVIDER == ProviderByName(config.defaultProvider)
DEFAULT_MODEL == config.defaultModel
MAX_TOKENS == 8000
WORK_DIR == "/home/project"
MODIFICATIONS_TAG_NAME == "bolt_file_modifications"

\* a piece of text; message contents and prompts are sequences of these
Tok(t, v) == [t |-> t, v |-> v]

Msg(role, content) == [role |-> role, content |-> content]

\* a part of the system prompt: the template or one appended block
Segment(kind, body) == [kind |-> kind, body |-> body]

\* a FileMap entry as Object.entries yields it; defined = FALSE is a path
\* mapped to undefined
File(path, defined, locked) == [path |-> path, defined |-> defined, isLocked |-> locked]

\* an optional object argument
Absent == [present |-> FALSE, value |-> << >>]
Given(v) == [present |-> TRUE, value |-> v]

----------------------------------------------------------------------------
(* lib/.server/llm/stream-text.ts : message preprocessing *)

RECURSIVE FirstOf(_, _, _)
\* the value of the first token of kind t in content, dflt when none
FirstOf(content, t, dflt) ==
    IF content = << >> THEN dflt
    ELSE IF Head(content).t = t THEN Head(content).v
         ELSE FirstOf(Tail(content), t, dflt)

\* ./utils extractPropertiesFromMessage: the [Model: ..] and [Provider: ..]
\* directives of a user message, and its content without them
extractPropertiesFromMessage(message) ==
    [model    |-> FirstOf(message.content, "model", DEFAULT_MODEL),
     provider |-> FirstOf(message.content, "provider", DEFAULT_PROVIDER.name),
     content  |-> SelectSeq(message.content,
                            LAMBDA k : k.t \notin {"model", "provider"})]

RECURSIVE RemoveFirst(_, _)
\* String.replace with a regex without the g flag: the first match goes
RemoveFirst(content, t) ==
    IF content = << >> THEN << >>
    ELSE IF Head(content).t = t THEN Tail(content)
         ELSE << Head(content) >> \o RemoveFirst(Tail(content), t)

RECURSIVE ReplaceAll(_, _, _)
\* String.replace with a g regex: every match is replaced
ReplaceAll(content, t, by) ==
    IF content = << >> THEN << >>
    ELSE (IF Head(content).t = t THEN << by >> ELSE << Head(content) >>)
         \o ReplaceAll(Tail(content), t, by)

RECURSIVE TrimStart(_)
TrimStart(content) ==
    IF content # << >> /\ Head(content).t = "ws" THEN TrimStart(Tail(content))
    ELSE content

RECURSIVE TrimEnd(_)
TrimEnd(content) ==
    IF content # << >> /\ content[Len(content)].t = "ws"
    THEN TrimEnd(SubSeq(content, 1, Len(content) - 1))
    ELSE content

\* a trim that removes at most one white-space piece from each end
TrimOnePiece(content) ==
    LET start == IF content # << >> /\ Head(content).t = "ws"
                 THEN Tail(content) ELSE content
    IN  IF start # << >> /\ start[Len(start)].t = "ws"
        THEN SubSeq(start, 1, Len(start) - 1) ELSE start

\* String.prototype.trim
Trim(content) == TrimEnd(TrimStart(content))

\* stream-text.ts:116-125
cleanAssistantContent(content) ==
    Trim(ReplaceAll(RemoveFirst(RemoveFirst(content, "boltThought"), "think"),
                    "packageLock",
                    Tok("text", "[package-lock.json content removed]")))

\* stream-text.ts:108-131, the callback of messages.map
processMessage(message) ==
    IF message.role = "user"
    THEN [message EXCEPT !.content = extractPropertiesFromMessage(message).content]
    ELSE IF message.role = "assistant"
    THEN [message EXCEPT !.content = cleanAssistantContent(message.content)]
    ELSE message

mapMessages(messages) == [i \in 1..Len(messages) |-> processMessage(messages[i])]

RECURSIVE lastDirective(_, _, _)
\* currentModel / currentProvider after the map: each user message
\* overwrites them, so the last user message decides
lastDirective(messages, field, dflt) ==
    IF messages = << >> THEN dflt
    ELSE LET m == messages[Len(messages)]
         IN  IF m.role = "user" THEN extractPropertiesFromMessage(m)[field]
             ELSE lastDirective(SubSeq(messages, 1, Len(messages) - 1), field, dflt)

currentModel(messages) == lastDirective(messages, "model", DEFAULT_MODEL)

currentProvider(messages) == lastDirective(messages, "provider", DEFAULT_PROVIDER.name)

----------------------------------------------------------------------------
(* lib/.server/llm/stream-text.ts : provider and model resolution *)

\* resolveProvider falling back to the first provider of the list
resolveProviderFirstInList(name) ==
    IF FindByName(PROVIDER_LIST, name) # 0 THEN ProviderByName(name) ELSE PROVIDER_LIST[1]

\* stream-text.ts:133
resolveProvider(name) ==
    IF FindByName(PROVIDER_LIST, name) # 0 THEN ProviderByName(name) ELSE DEFAULT_PROVIDER

\* LLMManager.getStaticModelListFromProvider
getStaticModelListFromProvider(provider) == provider.staticModels

\* stream-text.ts:138-145
combinedModelsList(provider, fetched) == provider.staticModels \o fetched

\* resolveModel falling back to the last entry of modelsList
resolveModelFallsBackToLast(provider, modelName, fetched) ==
    LET staticModels == getStaticModelListFromProvider(provider)
        hit == FindByName(staticModels, modelName)
        modelsList == combinedModelsList(provider, fetched)
        found == FindByName(modelsList, modelName)
    IN  IF hit # 0
        THEN [ok |-> TRUE, fetches |-> 0, fellBack |-> FALSE,
              modelDetails |-> staticModels[hit]]
        ELSE IF Len(modelsList) = 0
        THEN [ok |-> FALSE, fetches |-> 1, fellBack |-> FALSE,
              modelDetails |-> ModelInfo(Undefined, 0)]
        ELSE IF found # 0
        THEN [ok |-> TRUE, fetches |-> 1, fellBack |-> FALSE,
              modelDetails |-> modelsList[found]]
        ELSE [ok |-> TRUE, fetches |-> 1, fellBack |-> TRUE,
              modelDetails |-> modelsList[Len(modelsList)]]

\* resolveModel fetching a second time when the list is empty
resolveModelRetriesFetch(provider, modelName, fetched) ==
    LET staticModels == getStaticModelListFromProvider(provider)
        hit == FindByName(staticModels, modelName)
        modelsList == combinedModelsList(provider, fetched)
        found == FindByName(modelsList, modelName)
    IN  IF hit # 0
        THEN [ok |-> TRUE, fetches |-> 0, fellBack |-> FALSE,
              modelDetails |-> staticModels[hit]]
        ELSE IF Len(modelsList) = 0
        THEN [ok |-> FALSE, fetches |-> 2, fellBack |-> FALSE,
              modelDetails |-> ModelInfo(Undefined, 0)]
        ELSE IF found # 0
        THEN [ok |-> TRUE, fetches |-> 1, fellBack |-> FALSE,
              modelDetails |-> modelsList[found]]
        ELSE [ok |-> TRUE, fetches |-> 1, fellBack |-> TRUE,
              modelDetails |-> modelsList[1]]

\* stream-text.ts:134-159.  fetched is what getModelListFromProvider returns
\* when it is called.
resolveModel(provider, modelName, fetched) ==
    LET staticModels == getStaticModelListFromProvider(provider)
        hit == FindByName(staticModels, modelName)
        modelsList == combinedModelsList(provider, fetched)
        found == FindByName(modelsList, modelName)
    IN  IF hit # 0
        THEN [ok |-> TRUE, fetches |-> 0, fellBack |-> FALSE,
              modelDetails |-> staticModels[hit]]
        ELSE IF Len(modelsList) = 0
        THEN [ok |-> FALSE, fetches |-> 1, fellBack |-> FALSE,
              modelDetails |-> ModelInfo(Undefined, 0)]
        ELSE IF found # 0
        THEN [ok |-> TRUE, fetches |-> 1, fellBack |-> FALSE,
              modelDetails |-> modelsList[found]]
        ELSE [ok |-> TRUE, fetches |-> 1, fellBack |-> TRUE,
              modelDetails |-> modelsList[1]]

\* stream-text.ts:161
dynamicMaxTokens(modelDetails) ==
    IF modelDetails.maxTokenAllowed # 0 THEN modelDetails.maxTokenAllowed ELSE MAX_TOKENS

----------------------------------------------------------------------------
(* lib/.server/llm/stream-text.ts : the system prompt *)

\* stream-text.ts:35-67
getPatchPrompt(options) ==
    << Tok("text", "You are an expert AI programmer ... Wrap the entire response in a"),
       Tok("open", options.modificationTagName),
       Tok("text", "tag. ... Here is an example of a PERFECT response:"),
       Tok("open", options.modificationTagName),
       Tok("text", "<diff path=...> @@ -10,7 +10,7 @@ ... </diff>"),
       Tok("close", options.modificationTagName),
       Tok("text", "Begin! The user's files are located in the '"),
       Tok("cwd", options.cwd),
       Tok("text", "' directory.") >>

\* ~/lib/common/prompts/discuss-prompt
discussPrompt == << Tok("text", "discuss prompt") >>

\* ~/lib/common/prompts/prompts
getSystemPrompt == << Tok("text", "baseline system prompt") >>

\* the identifiers the prompt library knows
LibraryIds == {"default", "optimized"}

\* PromptLibrary.getPropmtFromLibrary(id, options) ?? getSystemPrompt()
buildPrompt(promptId, options) ==
    LET id == OrElse(promptId, "default")
        connected == options.present /\ options.value.supabaseConnection
    IN  IF id \in LibraryIds
        THEN << Tok("library", id), Tok("cwd", WORK_DIR),
                Tok("tag", MODIFICATIONS_TAG_NAME),
                Tok("supabase", IF connected THEN "connected" ELSE "disconnected") >>
        ELSE getSystemPrompt

\* stream-text.ts:169-194
templateFor(chatMode, promptId, options) ==
    IF chatMode = "patch"
    THEN getPatchPrompt([modificationTagName |-> MODIFICATIONS_TAG_NAME, cwd |-> WORK_DIR])
    ELSE IF chatMode = "discuss"
    THEN discussPrompt
    ELSE buildPrompt(promptId, options)

\* stream-text.ts:198, the condition of the context buffer
appendsContext(p) ==
    /\ p.chatMode \in {"build", "patch"}
    /\ p.contextFiles.present
    /\ p.contextOptimization

\* ./utils createFilesContext(contextFiles, true)
createFilesContext(contextFiles) ==
    [i \in 1..Len(contextFiles) |-> Tok("file", contextFiles[i].path)]

\* Array.prototype.slice(n) for n >= 0
sliceFrom(s, n) == SubSeq(s, n + 1, Len(s))

\* a messageSliceId that was not given
NoSlice == -1

\* stream-text.ts:206-213
truncate(messages, messageSliceId) ==
    IF messageSliceId # NoSlice /\ messageSliceId # 0
    THEN sliceFrom(messages, messageSliceId)
    ELSE IF messages = << >> THEN << >> ELSE << messages[Len(messages)] >>

\* stream-text.ts:197-215, the messages after the context block
historyFor(p, mapped) ==
    IF appendsContext(p) /\ Truthy(p.summary)
    THEN truncate(mapped, p.messageSliceId)
    ELSE mapped

\* stream-text.ts:217-225, the paths in effectiveLockedFilePaths, in
\* insertion order
lockedPaths(files) ==
    IF files.present
    THEN LET locked == SelectSeq(files.value, LAMBDA f : f.defined /\ f.isLocked)
         IN  [i \in 1..Len(locked) |-> locked[i].path]
    ELSE << >>

\* withLockedNotice putting the notice right after the template
lockedNoticeFirst(prompt, files) ==
    IF Len(lockedPaths(files)) > 0
    THEN << prompt[1] >>
         \o << Segment("locked",
                  [i \in 1..Len(lockedPaths(files)) |-> Tok("path", lockedPaths(files)[i])]) >>
         \o Tail(prompt)
    ELSE prompt

\* stream-text.ts:227-234
withLockedNotice(prompt, files) ==
    IF Len(lockedPaths(files)) > 0
    THEN prompt \o << Segment("locked",
                  [i \in 1..Len(lockedPaths(files)) |-> Tok("path", lockedPaths(files)[i])]) >>
    ELSE prompt

\* stream-text.ts:166-234
assemblePrompt(p) ==
    LET template == << Segment("template", templateFor(p.chatMode, p.promptId, p.options)) >>
        withContext ==
            IF appendsContext(p)
            THEN template
                 \o << Segment("context", createFilesContext(p.contextFiles.value)) >>
                 \o (IF Truthy(p.summary)
                     THEN << Segment("summary", << Tok("text", p.summary) >>) >>
                     ELSE << >>)
            ELSE template
    IN  withLockedNotice(withContext, p.files)

----------------------------------------------------------------------------
(* lib/.server/llm/stream-text.ts : the call of the SDK *)

\* ai convertToCoreMessages: role and content of each message, in order
convertToCoreMessages(messages) ==
    [i \in 1..Len(messages) |-> Msg(messages[i].role, messages[i].content)]

\* stream-text.ts:238-249: the four computed arguments, then ...options
sdkArguments(provider, modelDetails, prompt, messages, options) ==
    LET o == options.value
    IN  [model |-> [provider |-> provider.name, model |-> modelDetails.name],
         system |-> IF options.present /\ o.system.present
                    THEN o.system.value ELSE prompt,
         maxTokens |-> IF options.present /\ o.maxTokens # 0
                       THEN o.maxTokens ELSE dynamicMaxTokens(modelDetails),
         messages |-> IF options.present /\ o.messages.present
                      THEN o.messages.value
                      ELSE convertToCoreMessages(messages)]

NoError == [name |-> "none", provider |-> ""]

NotResolved == [currentProvider |-> "", currentModel |-> "", provider |-> "",
                modelDetails |-> ModelInfo(Undefined, 0), fellBack |-> FALSE]

\* stream-text.ts:75-250
streamText ==
    /\ pc = "called"
    /\ LET p == props
           mapped == mapMessages(p.messages)
           provider == resolveProvider(currentProvider(p.messages))
           r == resolveModel(provider, currentModel(p.messages), p.fetched)
           res == [currentProvider |-> currentProvider(p.messages),
                   currentModel |-> currentModel(p.messages),
                   provider |-> provider.name,
                   modelDetails |-> r.modelDetails,
                   fellBack |-> r.fellBack]
       IN  /\ fetchCount' = fetchCount + r.fetches
           /\ resolved' = res
           /\ IF ~r.ok
              THEN /\ thrown' = [name |-> "No models found for provider",
                                 provider |-> provider.name]
                   /\ pc' = "failed"
                   /\ processedMessages' = mapped
                   /\ UNCHANGED << systemPrompt, sdkCalls >>
              ELSE /\ systemPrompt' = assemblePrompt(p)
                   /\ processedMessages' = historyFor(p, mapped)
                   /\ sdkCalls' = Append(sdkCalls,
                          sdkArguments(provider, r.modelDetails, assemblePrompt(p),
                                       historyFor(p, mapped), p.options))
                   /\ pc' = "done"
                   /\ UNCHANGED thrown
    /\ UNCHANGED << props, config, atoms, reprocessed, storeVars >>

----------------------------------------------------------------------------
(* Inputs *)

\* the longest message history of a call
MaxMsgs == 2

\* the provider and model a user message names; Undefined = no directive
DirectivePool ==
    { << Undefined, Undefined >>,
      << "Anthropic", "haiku" >>, << "Anthropic", "ghost" >>, << "Anthropic", "phi" >>,
      << "Ollama", "llama" >>, << "Ollama", "ghost" >>,
      << "Nope", "haiku" >>, << "Nope", "llama" >> }

directiveTokens(d) ==
    (IF d[2] = Undefined THEN << >> ELSE << Tok("model", d[2]) >>)
    \o (IF d[1] = Undefined THEN << >> ELSE << Tok("provider", d[1]) >>)

UserMessage(d) == Msg("user", directiveTokens(d) \o << Tok("text", "fix the button") >>)

AssistantMessage ==
    Msg("assistant", << Tok("ws", " "), Tok("think", "<think>plan</think>"),
                        Tok("text", "done"),
                        Tok("packageLock", "<boltAction ... package-lock.json>"),
                        Tok("ws", " ") >>)

SystemMessage == Msg("system", << Tok("model", "gpt4"), Tok("text", "be brief") >>)

Roles == {"user", "assistant", "system"}

RoleSeqs == UNION { [1..n -> Roles] : n \in 0..MaxMsgs }

\* the history with the given roles: the last user message carries the
\* directive d, every earlier one names OpenAI / gpt4
historyOf(roles, d) ==
    [i \in 1..Len(roles) |->
        IF roles[i] = "assistant" THEN AssistantMessage
        ELSE IF roles[i] = "system" THEN SystemMessage
        ELSE IF \E j \in (i + 1)..Len(roles) : roles[j] = "user"
             THEN UserMessage(<< "OpenAI", "gpt4" >>)
             ELSE UserMessage(d)]

\* what getModelListFromProvider answers
FetchedPool == { << >>, << Llama, Phi >> }

ChatModes == {"build", "discuss", "patch", Undefined}

FilesPool ==
    { Absent,
      Given(<< File("/a.ts", TRUE, FALSE), File("/gone.ts", FALSE, FALSE) >>),
      Given(<< File("/z.lock", TRUE, TRUE), File("/a.ts", TRUE, FALSE),
               File("/b.ts", TRUE, TRUE) >>) }

ContextFilesPool == { Absent, Given(<< File("/a.ts", TRUE, FALSE) >>) }

SummaryPool == { Undefined, "summary of the chat" }

SliceIds == {NoSlice} \cup 0..MaxMsgs

CallerPrompt == << Segment("caller", << Tok("text", "caller's system prompt") >>) >>

Options(supabase, system, maxTokens, messages) ==
    [supabaseConnection |-> supabase, system |-> system,
     maxTokens |-> maxTokens, messages |-> messages]

OptionsPool ==
    { Absent,
      Given(Options(TRUE, Absent, 0, Absent)),
      Given(Options(FALSE, Given(CallerPrompt), 1, Given(<< >>))) }

PromptIds == { Undefined, "unknown" }

NoProps == [messages |-> << >>, fetched |-> << >>, chatMode |-> Undefined,
            contextOptimization |-> FALSE, contextFiles |-> Absent,
            summary |-> Undefined, messageSliceId |-> NoSlice, files |-> Absent,
            options |-> Absent, promptId |-> Undefined]

Props(messages, fetched, mode, opt, ctx, summary, slice, files, options, id) ==
    [messages |-> messages, fetched |-> fetched, chatMode |-> mode,
     contextOptimization |-> opt, contextFiles |-> ctx,
     summary |-> summary, messageSliceId |-> slice, files |-> files,
     options |-> options, promptId |-> id]

\* calls that vary the history against the context and lock arguments
HistoryCall ==
    \E roles \in RoleSeqs, mode \in ChatModes, opt \in BOOLEAN,
       ctx \in ContextFilesPool, sum \in SummaryPool, slice \in SliceIds,
       files \in FilesPool :
        props = Props(historyOf(roles, << "Anthropic", "haiku" >>), << Llama, Phi >>,
                      mode, opt, ctx, sum, slice, files, Absent, Undefined)

\* calls that vary everything the prompt and the SDK arguments are built from
PromptCall ==
    \E mode \in ChatModes, opt \in BOOLEAN, ctx \in ContextFilesPool,
       sum \in SummaryPool, slice \in SliceIds, files \in FilesPool,
       options \in OptionsPool, id \in PromptIds :
        props = Props(historyOf(<< "user", "assistant" >>, << "Anthropic", "haiku" >>),
                      << Llama, Phi >>, mode, opt, ctx, sum, slice, files, options, id)

\* calls that vary the provider and model asked for and what the fetch yields
ResolverCall ==
    \E roles \in RoleSeqs, d \in DirectivePool, fetched \in FetchedPool,
       mode \in ChatModes, options \in OptionsPool :
        props = Props(historyOf(roles, d), fetched, mode, TRUE, Absent, Undefined,
                      NoSlice, Absent, options, Undefined)

\* the default provider and model the build is configured with
ConfigPool ==
    { [defaultProvider |-> "Anthropic", defaultModel |-> "claude"],
      [defaultProvider |-> "Ollama", defaultModel |-> "llama"] }

\* the settings a provider can have been saved with
StoredSettings(n) ==
    { Settings(n \notin LOCAL_PROVIDERS, Undefined, FALSE),
      Settings(n \notin LOCAL_PROVIDERS, "sk-1", FALSE),
      Settings(n \notin LOCAL_PROVIDERS, Undefined, TRUE) }

NotStored == [stored |-> FALSE, wellFormed |-> TRUE, value |-> << >>]

\* JSON.stringify(providersStore.get()) of an earlier session
StoredProviderSettings ==
    { NotStored } \cup
    { [stored |-> TRUE, wellFormed |-> TRUE,
       value |-> [n \in ProviderNames |-> ProviderEntry(ProviderByName(n), f[n])]] :
        f \in { g \in [ProviderNames -> UNION { StoredSettings(n) : n \in ProviderNames }] :
                    \A n \in ProviderNames : g[n] \in StoredSettings(n) } }

\* the selection an earlier session left behind: nothing, or a provider
\* with one of its models
StoredSelections ==
    { << Null, Null >> } \cup
    UNION { { << PROVIDER_LIST[i].name, PROVIDER_LIST[i].models[j].name >> :
                j \in 1..Len(PROVIDER_LIST[i].models) } :
            i \in 1..Len(PROVIDER_LIST) }

\* the entries of the boolean settings: absent, or the JSON.stringify of
\* a boolean written by an update function (part_000:168-183, 234-239)
FlagKeys ==
    {"isLatestBranch", "autoSelectTemplate", "contextOptimizationEnabled",
     "isEventLogsEnabled", "isDeveloperMode"}

StoredFlagValues == {Null, "true", "false"}

StoredFlags == [FlagKeys -> StoredFlagValues]

NoFlags == [k \in FlagKeys |-> Null]

\* the promptId entry: absent or written by updatePromptId
StoredPromptIds == {Null, "optimized"}

\* the bolt_tab_configuration entry
TabEntry(kind, value) == [kind |-> kind, value |-> value]

NoTabEntry == TabEntry("absent", defaultConfig)

StoredTabConfigurations ==
    { NoTabEntry,
      TabEntry("invalid", defaultConfig),
      TabEntry("noArrays", defaultConfig),
      TabEntry("config",
          [userTabs |-> << Tab("features", "user", FALSE), Tab("data", "user", TRUE) >>,
           developerTabs |-> << Tab("debug", "developer", TRUE) >>]),
      TabEntry("config",
          [userTabs |-> << Tab("data", "user", TRUE) >>,
           developerTabs |-> << Tab("debug", "developer", FALSE),
                                Tab("features", "developer", TRUE) >>]) }

\* provider settings text that JSON.parse rejects
MalformedProviderSettings == [stored |-> TRUE, wellFormed |-> FALSE, value |-> << >>]

\* the content of localStorage, one entry per key of SETTINGS_KEYS and
\* PROVIDER_SETTINGS_KEY
Storage(sel, ps, flags, promptId, tabs) ==
    [selectedProvider |-> sel[1], selectedModel |-> sel[2],
     provider_settings |-> ps,
     isLatestBranch |-> flags["isLatestBranch"],
     autoSelectTemplate |-> flags["autoSelectTemplate"],
     contextOptimizationEnabled |-> flags["contextOptimizationEnabled"],
     isEventLogsEnabled |-> flags["isEventLogsEnabled"],
     isDeveloperMode |-> flags["isDeveloperMode"],
     promptId |-> promptId,
     bolt_tab_configuration |-> tabs]

\* the partial settings a settings panel stores for a provider
SettingsUpdates == { [apiKey |-> "sk-1"], [isConfigured |-> TRUE] }

\* the longest assistant content, in pieces
MaxContent == 3

\* the pieces an assistant message is made of
ContentPieces ==
    { Tok("ws", " "), Tok("text", "done"),
      Tok("boltThought", "<div class=\\\"__boltThought__\\\">plan</div>"),
      Tok("think", "<think>plan</think>"),
      Tok("packageLock", "<boltAction ... package-lock.json>") }

AssistantContents == UNION { [1..n -> ContentPieces] : n \in 0..MaxContent }

----------------------------------------------------------------------------
(* Specifications *)

StreamIdle ==
    /\ props = NoProps
    /\ systemPrompt = << >>
    /\ processedMessages = << >>
    /\ resolved = NotResolved
    /\ fetchCount = 0
    /\ thrown = NoError
    /\ sdkCalls = << >>
    /\ reprocessed = << >>
    /\ config = [defaultProvider |-> "Anthropic", defaultModel |-> "claude"]

\* module initialisation of lib/stores/settings from localStorage
InitStore ==
    /\ pc = "store"
    /\ \E sel \in StoredSelections, ps \in StoredProviderSettings :
          /\ localStorage = Storage(sel, ps, NoFlags, Null, NoTabEntry)
          /\ settingsStore = initialSettingsStore(localStorage)
          /\ providersStore = getInitialProviderSettings(localStorage)
          /\ atoms = initialAtoms(localStorage)
    /\ effects = NoEffects
    /\ uiError = FALSE
    /\ StreamIdle

NextStore ==
    \/ \E i \in 1..Len(PROVIDER_LIST) : ProviderItemClick(PROVIDER_LIST[i])
    \/ \E i \in 1..Len(currentModels) : ModelItemClick(i)
    \/ \E i \in 1..Len(PROVIDER_LIST) :
          \E d \in DynamicModels(PROVIDER_LIST[i].name) :
              HostModelsLoaded(PROVIDER_LIST[i], d)

SpecStore == InitStore /\ [][NextStore]_vars

\* one call of streamText
InitStream ==
    /\ pc = "called"
    /\ (HistoryCall \/ PromptCall \/ ResolverCall)
    /\ config \in ConfigPool
    /\ systemPrompt = << >>
    /\ processedMessages = << >>
    /\ resolved = NotResolved
    /\ fetchCount = 0
    /\ thrown = NoError
    /\ sdkCalls = << >>
    /\ reprocessed = << >>
    /\ localStorage = Storage(<< Null, Null >>, NotStored, NoFlags, Null, NoTabEntry)
    /\ settingsStore = initialSettingsStore(localStorage)
    /\ providersStore = getInitialProviderSettings(localStorage)
    /\ atoms = initialAtoms(localStorage)
    /\ effects = NoEffects
    /\ uiError = FALSE

NextStream == streamText

SpecStream == InitStream /\ [][NextStream]_vars

\* the stores before the module has been evaluated
NotLoaded ==
    [latestBranchStore |-> FALSE, autoSelectStarterTemplate |-> FALSE,
     enableContextOptimizationStore |-> FALSE, isEventLogsEnabled |-> FALSE,
     promptStore |-> Undefined, developerModeStore |-> FALSE,
     tabConfigurationStore |-> [userTabs |-> << >>, developerTabs |-> << >>]]

StartupProviderSettings ==
    { NotStored, MalformedProviderSettings,
      [stored |-> TRUE, wellFormed |-> TRUE,
       value |-> [n \in {"OpenAI"} |->
                    ProviderEntry(ProviderByName(n), Settings(TRUE, "sk-1", FALSE))]] }

\* the page is opened with some content of localStorage
InitStartup ==
    /\ pc = "boot"
    /\ \E sel \in StoredSelections, ps \in StartupProviderSettings,
          flags \in StoredFlags, id \in StoredPromptIds,
          tabs \in StoredTabConfigurations :
            localStorage = Storage(sel, ps, flags, id, tabs)
    /\ settingsStore = [selectedProvider |-> Undefined, selectedModel |-> "",
                        models |-> [n \in {} |-> << >>],
                        providerSettings |-> [n \in {} |-> << >>]]
    /\ providersStore = [n \in {} |-> << >>]
    /\ atoms = NotLoaded
    /\ effects = NoEffects
    /\ uiError = FALSE
    /\ StreamIdle

\* part_000:89, 133, 143-149, 162-166, 208, 233: the module is evaluated
moduleInit ==
    /\ pc = "boot"
    /\ pc' = "store"
    /\ providersStore' = getInitialProviderSettings(localStorage)
    /\ settingsStore' = initialSettingsStore(localStorage)
    /\ atoms' = initialAtoms(localStorage)
    /\ UNCHANGED << localStorage, effects, uiError, props, systemPrompt,
                    processedMessages, resolved, fetchCount, thrown, sdkCalls,
                    config, reprocessed >>

NextStartup == moduleInit

SpecStartup == InitStartup /\ [][NextStartup]_vars

\* one assistant message about to be preprocessed
InitPreprocess ==
    /\ pc = "raw"
    /\ \E content \in AssistantContents :
          props = [NoProps EXCEPT !.messages = << Msg("assistant", content) >>]
    /\ config = [defaultProvider |-> "Anthropic", defaultModel |-> "claude"]
    /\ systemPrompt = << >>
    /\ processedMessages = << >>
    /\ reprocessed = << >>
    /\ resolved = NotResolved
    /\ fetchCount = 0
    /\ thrown = NoError
    /\ sdkCalls = << >>
    /\ localStorage = Storage(<< Null, Null >>, NotStored, NoFlags, Null, NoTabEntry)
    /\ settingsStore = initialSettingsStore(localStorage)
    /\ providersStore = getInitialProviderSettings(localStorage)
    /\ atoms = initialAtoms(localStorage)
    /\ effects = NoEffects
    /\ uiError = FALSE

\* stream-text.ts:108-131, messages.map over the messages of the call
preprocess ==
    /\ pc = "raw"
    /\ pc' = "once"
    /\ processedMessages' = mapMessages(props.messages)
    /\ UNCHANGED << props, systemPrompt, resolved, fetchCount, thrown, sdkCalls,
                    config, atoms, reprocessed, storeVars >>

\* stream-text.ts:108-131, the same map over its own output
preprocessAgain ==
    /\ pc = "once"
    /\ pc' = "twice"
    /\ reprocessed' = mapMessages(processedMessages)
    /\ UNCHANGED << props, systemPrompt, processedMessages, resolved, fetchCount,
                    thrown, sdkCalls, config, atoms, storeVars >>

NextPreprocess == preprocess \/ preprocessAgain

SpecPreprocess == InitPreprocess /\ [][NextPreprocess]_vars

\* the settings store with nothing selected in an earlier session
InitProviders ==
    /\ InitStore
    /\ localStorage.selectedProvider = Null

NextProviders ==
    \/ \E n \in ProviderNames, settings \in SettingsUpdates :
          updateProviderSettings(n, settings)
    \/ \E i \in 1..Len(PROVIDER_LIST) : ProviderItemClick(PROVIDER_LIST[i])

SpecProviders == InitProviders /\ [][NextProviders]_vars

Spec == SpecStore

----------------------------------------------------------------------------
(* Properties of the settings store and the selector *)

Names(models) == { models[i].name : i \in 1..Len(models) }

\* every model name the store or the registry lists for a provider
ModelNamesOf(store, providerName) ==
    IF providerName \notin ProviderNames THEN {}
    ELSE Names(ProviderByName(providerName).models)
         \cup Names(ProviderByName(providerName).staticModels)
         \cup (IF providerName \in DOMAIN store.models
               THEN Names(store.models[providerName]) ELSE {})

\* a provider is selected, a model is selected, and the model is one of
\* the provider's
SelectionConsistent(providerName, modelName) ==
    /\ Truthy(providerName)
    /\ Truthy(modelName)
    /\ modelName \in ModelNamesOf(settingsStore, providerName)

\* C1: in every state of the settings store, and in every state a store
\* listener is shown between the key writes of a handler, a provider and a
\* model are selected and the model belongs to the provider's model list.
C1_SelectionAlwaysConsistent ==
    pc = "store" =>
        /\ SelectionConsistent(settingsStore.selectedProvider, settingsStore.selectedModel)
        /\ \A i \in 1..Len(effects.trace) :
              (effects.trace[i].call = "setKey" /\ effects.trace[i].notified)
                  => SelectionConsistent(effects.trace[i].seenProvider,
                                         effects.trace[i].seenModel)

\* the model the claim expects a provider change to select; a provider
\* with neither a default nor a first model leaves no model selected
DefaultOrFirstModel(p) ==
    IF Truthy(p.defaultModel) THEN p.defaultModel
    ELSE IF Len(p.models) > 0 THEN p.models[1].name ELSE ""

\* C9: selecting a provider writes selectedProvider, then selectedModel (the
\* provider's default model, else its first model), then signals one fetch
\* for that provider; selecting a model writes selectedModel only.
C9_SelectionWrites ==
    /\ effects.handler = "handleProviderSelect" =>
          LET p == ProviderByName(effects.arg)
              t == effects.trace
          IN  /\ Len(t) = 3
              /\ t[1].call = "setKey" /\ t[1].key = "selectedProvider"
              /\ t[1].value = p.name
              /\ t[1].seenProvider = p.name /\ t[1].seenModel = effects.preModel
              /\ t[2].call = "setKey" /\ t[2].key = "selectedModel"
              /\ t[2].value = DefaultOrFirstModel(p)
              /\ t[2].seenProvider = p.name /\ t[2].seenModel = DefaultOrFirstModel(p)
              /\ t[3].call = "onFetchModels" /\ t[3].value = p.name
              /\ settingsStore.selectedProvider = p.name
              /\ settingsStore.selectedModel = DefaultOrFirstModel(p)
    /\ effects.handler = "handleModelSelect" =>
          /\ Len(effects.trace) = 1
          /\ effects.trace[1].call = "setKey"
          /\ effects.trace[1].key = "selectedModel"
          /\ effects.trace[1].value = effects.arg
          /\ settingsStore.selectedModel = effects.arg
          /\ settingsStore.selectedProvider = effects.preProvider
          /\ localStorage.selectedProvider = effects.preStorage.selectedProvider

\* a provider without a default model was selected, so its first model is
\* the selected one
C9_Witness ==
    /\ effects.handler = "handleProviderSelect"
    /\ effects.arg = "OpenAI"
    /\ effects.preProvider = "Anthropic"
    /\ settingsStore.selectedModel = "gpt4"

\* what the claim calls selectable, read from the settings the selector uses
Selectable(providerName) ==
    LET e == settingsStore.providerSettings[providerName]
    IN  \/ ~ProviderByName(providerName).isConfigurable
        \/ Truthy(e.settings.apiKey)
        \/ e.settings.isConfigured

\* C10: a click selects a provider only if it is non-configurable or its
\* settings hold an API key or the configured flag; a click on any other
\* provider changes neither the store nor localStorage, signals no fetch and
\* raises no error.
C10_UnconfiguredClickIsInert ==
    /\ ~uiError
    /\ effects.handler = "handleProviderSelect" => Selectable(effects.arg)
    /\ effects.handler = "providerItemClick" =>
          /\ ~Selectable(effects.arg)
          /\ effects.trace = << >>
          /\ settingsStore.selectedProvider = effects.preProvider
          /\ settingsStore.selectedModel = effects.preModel
          /\ localStorage = effects.preStorage

\* a configurable provider nothing was ever saved for was clicked
C10_Witness ==
    /\ effects.handler = "providerItemClick"
    /\ effects.arg = "OpenAI"
    /\ ~localStorage.provider_settings.stored
    /\ settingsStore.selectedProvider = "Anthropic"

----------------------------------------------------------------------------
(* Properties of streamText *)

returned == pc \in {"done", "failed"}

\* the provider and model the last user message asks for
requestedProvider == currentProvider(props.messages)
requestedModel == currentModel(props.messages)

\* the provider the claims expect for the requested name
expectedProvider ==
    IF requestedProvider \in ProviderNames
    THEN ProviderByName(requestedProvider) ELSE DEFAULT_PROVIDER

\* static models followed by the fetched ones
fullModelList == expectedProvider.staticModels \o props.fetched

\* C2: a model name that is not in the provider's full list resolves to the
\* first entry of the list when the list is not empty, without an error; a
\* name that is in the list resolves to the entry of that name.
C2_ModelFallback ==
    returned =>
        /\ (requestedModel \notin Names(fullModelList) /\ fullModelList # << >>) =>
              /\ pc = "done"
              /\ thrown = NoError
              /\ resolved.modelDetails = fullModelList[1]
              /\ Len(sdkCalls) = 1
        /\ requestedModel \in Names(fullModelList) =>
              /\ pc = "done"
              /\ thrown = NoError
              /\ resolved.modelDetails.name = requestedModel
              /\ resolved.modelDetails \in SeqToSet(fullModelList)

\* an unknown model of a provider without static models: the first fetched
\* model is taken
C2_Witness ==
    /\ pc = "done"
    /\ requestedProvider = "Ollama"
    /\ requestedModel = "ghost"
    /\ resolved.modelDetails = Llama
    /\ resolved.fellBack

\* C3: with a model that is not a static one and an empty combined list,
\* streamText throws 'No models found' naming the resolved provider, after
\* one fetch, and never calls the SDK.
C3_NoModelsFound ==
    (returned /\ fullModelList = << >>) =>
        /\ pc = "failed"
        /\ thrown = [name |-> "No models found for provider",
                     provider |-> expectedProvider.name]
        /\ fetchCount = 1
        /\ sdkCalls = << >>

\* the default provider has no model at all
C3_Witness ==
    /\ pc = "failed"
    /\ requestedProvider = "Nope"
    /\ thrown.provider = "Ollama"
    /\ props.fetched = << >>

\* C4: a provider name outside PROVIDER_LIST resolves to DEFAULT_PROVIDER, a
\* name inside it to the provider of that name; the model lookup, the model
\* instance and the error all belong to that provider.
C4_ProviderFallback ==
    returned =>
        /\ requestedProvider \notin ProviderNames =>
              resolved.provider = config.defaultProvider
        /\ requestedProvider \in ProviderNames =>
              resolved.provider = requestedProvider
        /\ pc = "done" =>
              /\ resolved.modelDetails \in SeqToSet(fullModelList)
              /\ Len(sdkCalls) = 1
              /\ sdkCalls[1].model.provider = expectedProvider.name
        /\ pc = "failed" => thrown.provider = expectedProvider.name

\* an unknown provider name, answered with a static model of the default
\* provider
C4_Witness ==
    /\ pc = "done"
    /\ requestedProvider = "Nope"
    /\ config.defaultProvider = "Anthropic"
    /\ resolved.modelDetails = Haiku
    /\ sdkCalls[1].model.provider = "Anthropic"

\* the entries of the file map that are flagged locked
lockedEntries ==
    IF props.files.present
    THEN { i \in 1..Len(props.files.value) :
            props.files.value[i].defined /\ props.files.value[i].isLocked }
    ELSE {}

lockedSegments == { i \in 1..Len(systemPrompt) : systemPrompt[i].kind = "locked" }

\* C5: with a locked file, the notice is the last segment of the system
\* prompt and lists each locked path once, in file map order, and no other
\* path; without one there is no notice.
C5_LockedNoticeLast ==
    pc = "done" =>
        IF lockedEntries = {}
        THEN lockedSegments = {}
        ELSE /\ lockedSegments = { Len(systemPrompt) }
             /\ LET body == systemPrompt[Len(systemPrompt)].body
                    entries == props.files.value
                IN  /\ Len(body) = Cardinality(lockedEntries)
                    /\ \A i \in lockedEntries :
                          Cardinality({ k \in 1..Len(body) :
                                          body[k].v = entries[i].path }) = 1
                    /\ \A k \in 1..Len(body) :
                          \E i \in lockedEntries : body[k].v = entries[i].path
                    /\ \A k, l \in 1..Len(body) :
                          k < l => \E i, j \in lockedEntries :
                                      /\ i < j
                                      /\ body[k].v = entries[i].path
                                      /\ body[l].v = entries[j].path

\* patch mode with context buffer and summary, and two locked files around
\* an unlocked one
C5_Witness ==
    /\ pc = "done"
    /\ props.chatMode = "patch"
    /\ Cardinality(lockedEntries) = 2
    /\ Len(systemPrompt) = 4
    /\ systemPrompt[4].body = << Tok("path", "/z.lock"), Tok("path", "/b.ts") >>

\* the system prompt without the locked-file notice
beforeNotice == SelectSeq(systemPrompt, LAMBDA g : g.kind # "locked")

\* C6: the context buffer is appended exactly when the mode is build or
\* patch (an omitted mode being build), context optimization is on and
\* context files are given; otherwise the prompt before the notice is the
\* template of the mode alone.
C6_ContextBufferCondition ==
    pc = "done" =>
        LET wanted == /\ props.chatMode \in {"build", "patch", Undefined}
                      /\ props.contextOptimization
                      /\ props.contextFiles.present
            template == Segment("template",
                            templateFor(props.chatMode, props.promptId, props.options))
        IN  /\ wanted <=> (\E i \in 1..Len(systemPrompt) : systemPrompt[i].kind = "context")
            /\ ~wanted => beforeNotice = << template >>

contextAppended == \E i \in 1..Len(systemPrompt) : systemPrompt[i].kind = "context"

\* C7: with the context buffer appended and a summary given, the SDK gets
\* the processed history from messageSliceId on when a slice index is given
\* (0 included), else the last message alone; otherwise the whole processed
\* history.  Stated for calls whose options carry no messages of their own.
C7_HistoryTruncation ==
    (pc = "done" /\ ~(props.options.present /\ props.options.value.messages.present)) =>
        LET mapped == mapMessages(props.messages)
            expected ==
                IF contextAppended /\ Truthy(props.summary)
                THEN IF props.messageSliceId # NoSlice
                     THEN sliceFrom(mapped, props.messageSliceId)
                     ELSE IF mapped = << >> THEN << >>
                          ELSE << mapped[Len(mapped)] >>
                ELSE mapped
        IN  sdkCalls[1].messages = expected

\* C8: the SDK call carries the assembled system prompt, the token cap of
\* the resolved model, the resolved model and the processed messages,
\* whatever the caller's options hold.
C8_SdkArgumentsComputed ==
    pc = "done" =>
        /\ Len(sdkCalls) = 1
        /\ sdkCalls[1].system = systemPrompt
        /\ sdkCalls[1].maxTokens =
              (IF resolved.modelDetails.maxTokenAllowed # 0
               THEN resolved.modelDetails.maxTokenAllowed ELSE MAX_TOKENS)
        /\ sdkCalls[1].model =
              [provider |-> resolved.provider, model |-> resolved.modelDetails.name]
        /\ sdkCalls[1].messages = processedMessages

----------------------------------------------------------------------------
(* Persistence of the selection *)

\* the selection a restart would load from the persisted entries
restoredSelection ==
    LET reloaded == initialSettingsStore(localStorage)
    IN  << reloaded.selectedProvider, reloaded.selectedModel >>

\* C11: after a provider selection or a model selection, re-initialising
\* the store from the persisted 'selectedProvider' and 'selectedModel'
\* entries restores exactly the selection the store holds.
C11_RestartRestoresSelection ==
    effects.handler \in {"handleProviderSelect", "handleModelSelect"} =>
        restoredSelection =
            << settingsStore.selectedProvider, settingsStore.selectedModel >>

----------------------------------------------------------------------------
(* Startup *)

\* the defaults getInitialSettings declares for the boolean settings, by
\* storage key and by store
DeclaredDefaults ==
    [isLatestBranch |-> FALSE, autoSelectTemplate |-> TRUE,
     contextOptimizationEnabled |-> TRUE, isEventLogsEnabled |-> TRUE,
     isDeveloperMode |-> FALSE]

FlagStore ==
    [isLatestBranch |-> "latestBranchStore",
     autoSelectTemplate |-> "autoSelectStarterTemplate",
     contextOptimizationEnabled |-> "enableContextOptimizationStore",
     isEventLogsEnabled |-> "isEventLogsEnabled",
     isDeveloperMode |-> "developerModeStore"]

\* the stored boolean when one is stored, else the declared default
StoredOrDefaultFlag(key) ==
    IF localStorage[key] \in {"true", "false"}
    THEN localStorage[key] = "true"
    ELSE DeclaredDefaults[key]

StoredOrDefaultProviderSettings(n) ==
    LET saved == localStorage.provider_settings
    IN  IF saved.stored /\ saved.wellFormed /\ n \in DOMAIN saved.value
        THEN saved.value[n].settings
        ELSE Settings(n \notin LOCAL_PROVIDERS, Undefined, FALSE)

\* C12: once the module has been evaluated in the browser, every persisted
\* setting holds its stored value when one is stored and well-formed and its
\* declared default otherwise, and no error has escaped.
C12_StartupLoadsStoredOrDefault ==
    pc = "store" =>
        /\ \A key \in FlagKeys : atoms[FlagStore[key]] = StoredOrDefaultFlag(key)
        /\ atoms.promptStore =
              (IF localStorage.promptId # Null THEN localStorage.promptId ELSE "default")
        /\ settingsStore.selectedProvider =
              (IF localStorage.selectedProvider # Null
               THEN localStorage.selectedProvider ELSE PROVIDER_LIST[1].name)
        /\ settingsStore.selectedModel =
              (IF localStorage.selectedModel # Null
               THEN localStorage.selectedModel ELSE PROVIDER_LIST[1].defaultModel)
        /\ \A n \in ProviderNames :
              /\ providersStore[n].settings = StoredOrDefaultProviderSettings(n)
              /\ settingsStore.providerSettings[n].settings =
                    StoredOrDefaultProviderSettings(n)
        /\ atoms.tabConfigurationStore =
              (IF localStorage.bolt_tab_configuration.kind = "config"
               THEN localStorage.bolt_tab_configuration.value ELSE defaultConfig)
        /\ ~uiError

----------------------------------------------------------------------------
(* The patch prompt *)

\* how often a piece of kind t with value v occurs in a text
Occurrences(text, t, v) == Len(SelectSeq(text, LAMBDA k : k.t = t /\ k.v = v))

\* the template of the system prompt
promptTemplate == SelectSeq(systemPrompt, LAMBDA g : g.kind = "template")[1].body

TagNames == {MODIFICATIONS_TAG_NAME, "patch"}

WorkDirs == {WORK_DIR, "/"}

\* C13: in patch mode the template of the system prompt contains exactly
\* one opening and exactly one closing occurrence of the modification tag,
\* and so does getPatchPrompt for every tag name and working directory.
C13_OneTagPair ==
    (pc = "done" /\ props.chatMode = "patch") =>
        /\ Occurrences(promptTemplate, "open", MODIFICATIONS_TAG_NAME) = 1
        /\ Occurrences(promptTemplate, "close", MODIFICATIONS_TAG_NAME) = 1
        /\ \A tag \in TagNames, cwd \in WorkDirs :
              LET text == getPatchPrompt([modificationTagName |-> tag, cwd |-> cwd])
              IN  /\ Occurrences(text, "open", tag) = 1
                  /\ Occurrences(text, "close", tag) = 1

----------------------------------------------------------------------------
(* The message preprocessor *)

\* no thought markup and no package-lock block in a content
MarkerFree(content) ==
    \A i \in 1..Len(content) : content[i].t \notin {"boltThought", "think", "packageLock"}

\* C14: for an assistant message free of thought markup and of package-lock
\* blocks, rewriting the rewritten message again yields the content the
\* first rewriting produced.
C14_AssistantRewritingIdempotent ==
    (pc = "twice" /\ MarkerFree(props.messages[1].content)) =>
        reprocessed = processedMessages

\* a marker-free message with white space on both sides went through both
\* passes
C14_Witness ==
    /\ pc = "twice"
    /\ props.messages[1].content = << Tok("ws", " "), Tok("text", "done"), Tok("ws", " ") >>
    /\ processedMessages[1].content = << Tok("text", "done") >>
    /\ reprocessed = processedMessages

----------------------------------------------------------------------------
(* Provider settings *)

\* C15: after updateProviderSettings the provider settings the selector
\* reads equal those of providersStore and of the persisted entry, a provider
\* that now has an API key or the configured flag is selectable, and the
\* settings of every other provider are as they were before the call.
C15_ProviderSettingsInSync ==
    effects.handler = "updateProviderSettings" =>
        /\ \A n \in ProviderNames :
              /\ settingsStore.providerSettings[n].settings = providersStore[n].settings
              /\ localStorage.provider_settings.stored
              /\ localStorage.provider_settings.value[n].settings =
                    providersStore[n].settings
              /\ n # effects.arg => providersStore[n] = effects.trace[1].before[n]
        /\ (\/ Truthy(providersStore[effects.arg].settings.apiKey)
            \/ providersStore[effects.arg].settings.isConfigured)
              => isProviderConfigured(settingsStore.providerSettings, effects.arg) = "truthy"

====
